---- MODULE Spec2Model ----
(***************************************************************************)
(* A model of volt's install engine: core/utils/mod.rs (decompress_gzip,   *)
(* verify_checksum, link_dependencies, install_package), commands/add.rs   *)
(* (Add::exec) and commands/install.rs (Install::exec).                    *)
(*                                                                         *)
(* Strings are sequences of one-symbol strings.  A symbol is a character,  *)
(* except that a fixed literal of the source that no operation looks into  *)
(* (".volt", "node_modules") is written as one symbol.  A path (PathBuf)   *)
(* is a sequence of components, each component a string.                   *)
(***************************************************************************)
EXTENDS Integers, Sequences, FiniteSets, TLC

\* ------------------------------------------------------------------ bounds

\* Tarball contents are the byte strings 0..MaxBytes.
MaxBytes == 2

\* ----------------------------------------------------------------- strings

\* str::starts_with
StartsWith(s, prefix) ==
  /\ Len(s) >= Len(prefix)
  /\ SubSeq(s, 1, Len(prefix)) = prefix

\* str::replace(char, &str) with a one-symbol replacement
ReplaceChar(s, from, to) ==
  [i \in 1..Len(s) |-> IF s[i] = from THEN to ELSE s[i]]

\* str::replace(&str, ""): every non-overlapping match of pat, left to right
RECURSIVE RemoveSub(_, _)
RemoveSub(s, pat) ==
  IF Len(pat) = 0 \/ Len(s) = 0 THEN s
  ELSE IF StartsWith(s, pat)
       THEN RemoveSub(SubSeq(s, Len(pat) + 1, Len(s)), pat)
       ELSE <<Head(s)>> \o RemoveSub(Tail(s), pat)

Contains(s, sym) == \E i \in 1..Len(s) : s[i] = sym

\* ------------------------------------------------------- integrity verifier

Bytes == 0..MaxBytes

DigitSym == [n \in 0..9 |-> CASE n = 0 -> "0" [] n = 1 -> "1" [] n = 2 -> "2"
                              [] n = 3 -> "3" [] n = 4 -> "4" [] n = 5 -> "5"
                              [] n = 6 -> "6" [] n = 7 -> "7" [] n = 8 -> "8"
                              [] OTHER -> "9"]

PrefixSha1 == <<"s", "h", "a", "1">>
PrefixSha512 == <<"s", "h", "a", "5", "1", "2">>

\* VoltConfig::calc_hash(bytes, algorithm): the SRI string "<algo>-<base64>"
\* of the digest of the bytes.  The base64 text of a digest is two symbols:
\* "H" (sha1) or "K" (sha512), then the symbol of the bytes hashed.
calc_hash(bytes, algorithm) ==
  IF algorithm = "Sha1"
  THEN PrefixSha1 \o <<"-", "H", DigitSym[bytes]>>
  ELSE PrefixSha512 \o <<"-", "K", DigitSym[bytes]>>

\* The first of the space-separated alternatives of an SRI string.
RECURSIVE FirstAlternative(_)
FirstAlternative(s) ==
  IF Len(s) = 0 \/ Head(s) = " " THEN <<>>
  ELSE <<Head(s)>> \o FirstAlternative(Tail(s))

\* A verifier that accepts a multi-hash SRI string on its first alternative.
verify_checksum_first_alternative(response, expected_checksum) ==
  LET algorithm == IF StartsWith(expected_checksum, PrefixSha1)
                   THEN "Sha1" ELSE "Sha512"
      calculated_checksum == calc_hash(response, algorithm)
  IN IF calculated_checksum = FirstAlternative(expected_checksum)
     THEN <<TRUE, <<"None">>>>
     ELSE <<FALSE, <<"Some", calculated_checksum>>>>

\* verify_checksum(response, expected_checksum) -> (bool, Option<String>)
verify_checksum(response, expected_checksum) ==
  LET algorithm == IF StartsWith(expected_checksum, PrefixSha1)
                   THEN "Sha1" ELSE "Sha512"
      calculated_checksum == calc_hash(response, algorithm)
  IN IF calculated_checksum = expected_checksum
     THEN <<TRUE, <<"None">>>>
     ELSE <<FALSE, <<"Some", calculated_checksum>>>>

\* The SRI strings verify_checksum is applied to: one alternative
\* "<prefix>-<base64>" for five algorithm names, the same without the
\* digest, the empty string, and two alternatives separated by a space.
AlgorithmNames ==
  { PrefixSha1, PrefixSha512, <<"s", "h", "a", "2", "5", "6">>,
    <<"s", "h", "a", "1", "x">>, <<"m", "d", "5">> }

Base64Texts == { <<k, DigitSym[b]>> : k \in {"H", "K"}, b \in Bytes }

SingleSri == { a \o <<"-">> \o d : a \in AlgorithmNames, d \in Base64Texts }

ValidSri == { calc_hash(b, alg) : b \in Bytes, alg \in {"Sha1", "Sha512"} }

MultiSri == { x \o <<" ">> \o y : x \in ValidSri, y \in ValidSri }

SriInputs == SingleSri \cup MultiSri \cup AlgorithmNames \cup {<<>>}

\* ------------------------------------------------------------------- paths

\* The components of a path string: split at "/", empty components dropped
\* (std::path::Path::components).  On unix "\" is an ordinary character.
RECURSIVE Components(_)
Components(s) ==
  IF Len(s) = 0 THEN <<>>
  ELSE IF Head(s) = "/" THEN Components(Tail(s))
  ELSE LET rest == Components(Tail(s))
       IN IF Len(s) = 1 \/ s[2] = "/"
          THEN <<<<Head(s)>>>> \o rest
          ELSE <<<<Head(s)>> \o Head(rest)>> \o Tail(rest)

\* PathBuf::push / Path::join: an absolute argument replaces the path.
Push(path, s) ==
  IF Len(s) > 0 /\ Head(s) = "/"
  THEN <<<<"/">>>> \o Components(s)
  ELSE path \o Components(s)

\* Path::parent of a path of at least one component
Parent(path) == SubSeq(path, 1, Len(path) - 1)

IsUnder(path, dir) ==
  /\ Len(path) >= Len(dir)
  /\ SubSeq(path, 1, Len(dir)) = dir

\* std::fs::create_dir_all: the directory and every missing ancestor
CreateDirAll(ds, path) == ds \cup { SubSeq(path, 1, n) : n \in 0..Len(path) }

\* config.node_modules()
NodeModules == <<<<"node_modules">>>>

\* ---------------------------------------------------------------- packages

\* Files of the largest package: more than one chunk of CHUNK_SIZE.
MaxFiles == 7

\* cas_file_map.chunks(6)
CHUNK_SIZE == 6

\* How many times the same install is run, one run after the other.
MaxRuns == 2

\* At most MaxTree packages are installed together.
MaxTree == 2

NameA == <<"a">>
NameB == <<"@", "s", "/", "b">>
NameC == <<"c">>
NameD == <<"d">>
NameE == <<"e">>
V1 == <<"1">>

\* VoltPackage: name, version, integrity, dependencies (Option<HashMap>);
\* "files" is the number of files of its tarball and "bytes" the tarball
\* that the integrity string was computed from.  a and c depend on each
\* other, @s/b has no dependencies, d depends on the scoped @s/b, and e is
\* the large package, which depends on d.
Package ==
  [ A |-> [ name |-> NameA, version |-> V1,
            integrity |-> calc_hash(0, "Sha512"), bytes |-> 0,
            dependencies |-> <<"Some", {<<NameC, V1>>}>>, files |-> 2 ],
    B |-> [ name |-> NameB, version |-> V1,
            integrity |-> calc_hash(1, "Sha1"), bytes |-> 1,
            dependencies |-> <<"None">>, files |-> 3 ],
    C |-> [ name |-> NameC, version |-> V1,
            integrity |-> calc_hash(0, "Sha1"), bytes |-> 0,
            dependencies |-> <<"Some", {<<NameA, V1>>}>>, files |-> 1 ],
    D |-> [ name |-> NameD, version |-> V1,
            integrity |-> calc_hash(1, "Sha512"), bytes |-> 1,
            dependencies |-> <<"Some", {<<NameB, V1>>}>>, files |-> 1 ],
    E |-> [ name |-> NameE, version |-> V1,
            integrity |-> calc_hash(1, "Sha1"), bytes |-> 1,
            dependencies |-> <<"Some", {<<NameD, V1>>}>>, files |-> MaxFiles ] ]

Ids == DOMAIN Package

\* The relative path of the i-th file of a tarball: index.js, lib/f2, ...
FilePath(i) ==
  IF i = 1 THEN <<<<"index.js">>>> ELSE <<<<"lib">>, <<"f", DigitSym[i]>>>>

\* The digest of the i-th file of package p; a blob's contents are named by
\* its digest (the store is content-addressed).
Digest(p, i) ==
  (CASE p = "A" -> 100 [] p = "B" -> 200 [] p = "C" -> 300 [] p = "D" -> 400
     [] OTHER -> 500) + i

\* The per-package file map as install_package reads it from the CAS: a
\* HashMap of relative path -> digest.  The index i names an entry of the
\* map; it is not a position: the order in which the map is collected into
\* the Vec cas_file_map is arbitrary (see Chunkings).
FileMap(p) == [i \in 1..Package[p].files |-> <<FilePath(i), Digest(p, i)>>]

\* ------------------------------------------------------------------ layout

\* format!("{}@{}", name, version)
AtVersion(name, version) == name \o <<"@">> \o version

\* The directory the spec lays a package out in:
\* <node_modules>/.volt/<name+>@<version>/node_modules/<name>
MaterializationRoot(name, version) ==
  Push(Push(Push(Push(NodeModules, <<".volt">>),
                 AtVersion(ReplaceChar(name, "/", "+"), version)),
            <<"node_modules">>),
       name)

\* install_package, warm path: package_path
package_path(pkg) ==
  Push(Push(Push(Push(NodeModules, <<".volt", "/">>),
                 AtVersion(pkg.name, pkg.version)),
            <<"node_modules", "/">>),
       ReplaceChar(pkg.name, "/", "\\"))

\* link_dependencies: the dependency's name with "@<version>" removed
dep_name(entry) == RemoveSub(entry[1], <<"@">> \o entry[2])

\* link_dependencies: dependency_link_path, the directory the link points to
dependency_link_path(pkg, entry) ==
  Push(Push(Push(Push(NodeModules, <<".volt">>),
                 AtVersion(ReplaceChar(dep_name(entry), "/", "+"), entry[2])),
            <<"node_modules">>),
       dep_name(entry))

\* link_dependencies: target_link_path, the place the link is created at
target_link_path(pkg, entry) ==
  Push(Push(Push(Push(NodeModules, <<".volt">>),
                 AtVersion(ReplaceChar(pkg.name, "/", "+"), pkg.version)),
            <<"node_modules">>),
       dep_name(entry))

\* The entries link_dependencies iterates over
DependencyEntries(pkg) ==
  IF pkg.dependencies[1] = "Some" THEN pkg.dependencies[2] ELSE {}

\* ------------------------------------------------------------------- state

VARIABLES
  vBytes, vSri, vResult,  \* verify_checksum applied to an input
  tree,       \* the packages this install was given
  casKeys,    \* the package keys whose file map the CAS holds
  blobs,      \* the digests whose blob the CAS holds
  dirs,       \* the directories of the file system (paths)
  files,      \* the regular files: path -> contents
  links,      \* the symbolic links: path -> the path it points to
  pc,         \* per package: the position of its install_package call
  cached,     \* per package: what verify_existing_installation returned
  response,   \* per package: the bytes fetch_tarball returned; -1 before
  check,      \* per package: what verify_checksum returned
  events,     \* per package: the operations its pipeline invoked, in order
  result,     \* per package: what install_package returned
  workers,    \* per package: its spawn_blocking chunk tasks
  joined,     \* per package: how many chunk handles were awaited
  toLink,     \* per package: the dependency entries not yet linked
  linkError,  \* the failed symlink call that ended the process, if any
  exited,     \* std::process::exit(1) was called
  fetches,    \* the tarball fetches of the current run
  run,        \* the number of the current run of the install
  before,     \* the file system when the current run began
  packages,   \* Add::exec: the requested package names, in order
  dirExists,  \* per request: package_dir.exists()
  mainPc,     \* Add::exec: where the function itself is
  loopIndex,  \* Add::exec: the request the for loop is at
  handles,    \* Add::exec: the requests whose task was spawned, in order
  awaited,    \* Add::exec: how many handles were awaited
  taskPc,     \* per request: where its body (spawned or inline) is
  futures,    \* per request: its FuturesUnordered, dependency -> state
  lockFile,   \* per request: the entries of its own LockFile value
  lockDisk,   \* the entries of the lock file on disk
  packageJson,     \* the dependencies of the shared PackageJson value
  packageJsonDisk, \* the dependencies of package.json on disk
  mutexOwner, \* the request that holds the package_file mutex, or 0
  topLinks,   \* the requested packages whose top-level links were made
  dead,       \* the process ended on a panic of Add::exec itself
  mode,       \* how the current run of the install began
  args,       \* Add::exec: app.args
  gzData,     \* decompress_gzip: the input it is applied to
  gzResult    \* decompress_gzip: what it returned

engineVars == <<tree, casKeys, blobs, dirs, files, links, pc, cached, response,
                check, events, result, workers, joined, toLink, linkError,
                exited, fetches, run, before, mode>>

verifyVars == <<vBytes, vSri, vResult>>

gzipVars == <<gzData, gzResult>>

addVars == <<packages, dirExists, mainPc, loopIndex, handles, awaited, taskPc,
             futures, lockFile, lockDisk, packageJson, packageJsonDisk,
             mutexOwner, topLinks, dead, args>>

vars == <<verifyVars, gzipVars, engineVars, addVars>>

\* --------------------------------------------------------- decompress_gzip

\* The payload of a gzip member is at most MaxPayload bytes.
MaxPayload == 3

\* At most MaxTail bytes follow the gzip member in the input.
MaxTail == 4

\* u32::from_le_bytes
from_le_bytes(b) == b[1] + 256 * b[2] + 65536 * b[3] + 16777216 * b[4]

\* u32::to_le_bytes, as the writer of a gzip member stores ISIZE
to_le_bytes(n) ==
  <<n % 256, (n \div 256) % 256, (n \div 65536) % 256, (n \div 16777216) % 256>>

\* The inputs decompress_gzip is applied to.  <<"member", n, field, tail>>
\* is a gzip member (header, deflate stream of n bytes of payload, CRC32,
\* then the four bytes of its ISIZE field) followed by the bytes of tail;
\* <<"raw", bytes>> is bytes that are no gzip stream.
TailBytes == {0, 2}

Tails == UNION { [1..n -> TailBytes] : n \in 0..MaxTail }

GzInputs ==
  { <<"member", n, to_le_bytes(f), t>> :
      n \in 0..MaxPayload, f \in 0..MaxPayload, t \in Tails }
  \cup { <<"raw", t>> : t \in Tails }

\* The bytes at the end of gz_data, as far as they are known: the ISIZE
\* field and the tail of a member, the bytes of a raw input.
EndBytes(gz_data) ==
  IF gz_data[1] = "member" THEN gz_data[3] \o gz_data[4] ELSE gz_data[2]

\* gz_data.len(): a member is never shorter than its 18 bytes of overhead
GzLen(gz_data) ==
  IF gz_data[1] = "member" THEN 14 + Len(EndBytes(gz_data))
  ELSE Len(gz_data[2])

\* libdeflater's Decompressor::gzip_decompress(gz_data, out): the first
\* member is decompressed into out, what follows it is ignored.  The result
\* is the number of bytes written, or an error: not a gzip stream, out too
\* small for the payload, or the payload's length differs from the
\* member's own ISIZE field.
gzip_decompress(gz_data, out_len) ==
  IF gz_data[1] # "member" THEN <<"Err", "BadData">>
  ELSE IF gz_data[2] > out_len THEN <<"Err", "InsufficientSpace">>
  ELSE IF gz_data[2] # from_le_bytes(gz_data[3]) THEN <<"Err", "BadData">>
  ELSE <<"Ok", gz_data[2]>>

\* decompress_gzip(gz_data): Ok(outbuf) is written <<"Ok", outbuf.len(),
\* the number of bytes of outbuf that were decompressed into>>.
decompress_gzip(gz_data) ==
  IF GzLen(gz_data) < 4
  THEN <<"panic">>   \* gz_data.len() - 4 / the slice index is out of range
  ELSE LET e == EndBytes(gz_data)
           isize == from_le_bytes(SubSeq(e, Len(e) - 3, Len(e)))
           r == gzip_decompress(gz_data, isize)
       IN IF r[1] = "Err" THEN r ELSE <<"Ok", isize, r[2]>>

InitGzip ==
  /\ gzData \in GzInputs
  /\ gzResult = <<"pending">>

DecompressCall ==
  /\ gzResult = <<"pending">>
  /\ gzResult' = decompress_gzip(gzData)
  /\ UNCHANGED <<gzData, verifyVars, engineVars, addVars>>

NextGzip == DecompressCall

\* ------------------------------------------- verify_checksum on an input

InitVerify ==
  /\ vBytes \in Bytes
  /\ vSri \in SriInputs
  /\ vResult = <<"pending">>

VerifyCall ==
  /\ vResult = <<"pending">>
  /\ vResult' = verify_checksum(vBytes, vSri)
  /\ UNCHANGED <<vBytes, vSri, gzipVars, engineVars, addVars>>

NextVerify == VerifyCall

\* ---------------------------------------------------------- install engine

FileSystem == [dirs |-> dirs, files |-> files, links |-> links]

\* The number of symbolic links the kernel follows while it resolves one
\* path, before it gives up with ELOOP.
MaxSymlinks == 40

\* Path resolution as the system calls do it: from the directory cur, one
\* component of rest after the other, a symbolic link replaced by the path
\* it holds.  The last component is followed too unless follow is FALSE.
\* The answer is what the path names (kind "dir", "file", "link"), or
\* "missing" when only its last component does not exist, or the errno of
\* the walk; path is the place of the entry with no link left in it.
RECURSIVE Walk(_, _, _, _)
Walk(cur, rest, follow, fuel) ==
  IF rest = <<>> THEN [kind |-> "dir", path |-> cur]
  ELSE LET next == Append(cur, Head(rest))
           tail == Tail(rest)
       IN IF next \in dirs THEN Walk(next, tail, follow, fuel)
          ELSE IF next \in DOMAIN files
          THEN [kind |-> IF tail = <<>> THEN "file" ELSE "ENOTDIR",
                path |-> next]
          ELSE IF next \in DOMAIN links
          THEN IF tail = <<>> /\ ~follow
               THEN [kind |-> "link", path |-> next]
               ELSE IF fuel = 0 THEN [kind |-> "ELOOP", path |-> next]
               ELSE Walk(<<>>, links[next] \o tail, follow, fuel - 1)
          ELSE [kind |-> IF tail = <<>> THEN "missing" ELSE "ENOENT",
                path |-> next]

\* stat(path): every link followed
Lookup(path) == Walk(<<>>, path, TRUE, MaxSymlinks)

\* lstat(path), and the way mkdir and symlink look at the path they are to
\* create: the links of the directory part followed, the last component not
LookupNoFollow(path) == Walk(<<>>, path, FALSE, MaxSymlinks)

\* package.cacache_key(): derived from name, version and integrity
cacache_key(pkg) == <<pkg.name, pkg.version, pkg.integrity>>

\* verify_existing_installation: the CAS read of the package key succeeds
verify_existing_installation(pkg) == cacache_key(pkg) \in casKeys

\* An install_package that fetches whatever the CAS holds.
FirstStepAlwaysFetch(hit) == "fetch"

\* install_package: the match on verify_existing_installation
FirstStep(hit) == IF hit THEN "spawn" ELSE "fetch"

\* A cold path that goes on whatever verify_checksum returned.
AfterVerifyUnchecked(verified) == "decompress"

\* install_package, cold path: what follows verify_checksum
AfterVerify(verified) == IF verified THEN "decompress" ELSE "return"

\* cas_file_map.chunks(CHUNK_SIZE): the k-th chunk is entries lo..hi
NumChunks(n) == (n + CHUNK_SIZE - 1) \div CHUNK_SIZE

\* Chunks that begin on the last entry of the chunk before.
ChunkLoOverlapping(k) == IF k = 1 THEN 1 ELSE (k - 1) * CHUNK_SIZE

ChunkLo(k) == (k - 1) * CHUNK_SIZE + 1
ChunkHi(k, n) == IF k * CHUNK_SIZE < n THEN k * CHUNK_SIZE ELSE n

\* The positions of the Vec that the k-th chunk holds
ChunkPositions(k, n) == ChunkLo(k)..ChunkHi(k, n)

\* The ways chunks(CHUNK_SIZE) can cut the Vec collected from a HashMap of
\* n entries: the order of the Vec is arbitrary, so the k-th chunk holds
\* any entries, as many as it has positions, and two chunks share as many
\* entries as they share positions.  A sequence of sets of entries.
RECURSIVE ChunkingsUpTo(_, _)
ChunkingsUpTo(k, n) ==
  IF k = 0 THEN {<<>>}
  ELSE LET sized == { T \in SUBSET (1..n) :
                        Cardinality(T) = Cardinality(ChunkPositions(k, n)) }
           fits(c, T) ==
             \A l \in 1..(k - 1) :
               Cardinality(T \cap c[l]) =
                 Cardinality(ChunkPositions(k, n) \cap ChunkPositions(l, n))
       IN { Append(ct[1], ct[2]) :
              ct \in { x \in ChunkingsUpTo(k - 1, n) \X sized :
                         fits(x[1], x[2]) } }

Chunkings(n) ==
  { c \in ChunkingsUpTo(NumChunks(n), n) :
      UNION { c[k] : k \in 1..Len(c) } = 1..n }

\* `if !created_directories_instance.iter().any(|p| p == &file_path)` and
\* `if let Some(value) = name.parent()`: the relative path of a file map
\* entry is not empty, so its parent is Some.  created_directories is the
\* set of the elements of the task's Vec.
NeedsCreateDir(created_directories, file_path, name) ==
  /\ file_path \notin created_directories
  /\ Len(name) > 0

\* The contents of a file that File::create has created or truncated and
\* write_all has not written yet.
EmptyContents == -1

\* A File::create that fails on a path that exists (create_new).
WriteFileKeepExisting(fs, file_path, contents) ==
  [q \in DOMAIN fs \cup {file_path} |->
     IF q \in DOMAIN fs THEN fs[q] ELSE contents]

\* What is in a file after write_all has written a part of the contents
\* and not all of it: some bytes of the blob, fewer than the blob has.
PartOf(contents) == 0 - contents

\* How a write_all ends: every byte written; Err with no byte written; Err
\* after a write that was short.
WriteOutcomes == {"all", "none", "part"}

\* The file at file_path holds the contents from now on: File::create
\* truncates or creates (EmptyContents), write_all writes the blob.
WriteFile(fs, file_path, contents) ==
  [q \in DOMAIN fs \cup {file_path} |->
     IF q = file_path THEN contents ELSE fs[q]]

\* The ancestors of a directory path and the path itself, the root left out
Prefixes(path) == { SubSeq(path, 1, n) : n \in 1..Len(path) }

\* std::fs::create_dir_all fails: a component of the path exists and is not
\* a directory (mkdir: EEXIST or ENOTDIR, and is_dir(), which follows
\* links, is false).  A link to a directory is a directory.
CreateDirBlocked(path) ==
  \E q \in Prefixes(path) :
    LET kind == LookupNoFollow(q).kind
    IN \/ kind \in {"file", "ENOTDIR", "ELOOP"}
       \/ kind = "link" /\ Lookup(q).kind # "dir"

\* std::fs::create_dir_all: the components of the path that are missing
MissingDirs(path) ==
  { q \in Prefixes(path) : LookupNoFollow(q).kind \in {"missing", "ENOENT"} }

\* std::fs::create_dir_all creates the missing components one mkdir at a
\* time, the shallowest first
NextMkdir(path) ==
  CHOOSE q \in MissingDirs(path) :
    \A r \in MissingDirs(path) : Len(q) <= Len(r)

\* mkdir(path): the directory the call makes, the links of the directory
\* part of the path followed
Mkdir(ds, path) == ds \cup {LookupNoFollow(path).path}

\* One more call in the count of calls per path
CountCall(calls, dir) ==
  [d \in DOMAIN calls \cup {dir} |->
     (IF d \in DOMAIN calls THEN calls[d] ELSE 0) + (IF d = dir THEN 1 ELSE 0)]

Idle == [p \in Ids |-> "idle"]

\* The package of MaxFiles files
Large == "E"

\* The installs: up to MaxTree packages together, the large one alone.
Trees ==
  { t \in SUBSET Ids :
      /\ t # {}
      /\ Cardinality(t) <= MaxTree
      /\ Large \in t => t = {Large} }

\* The install engine before the first run, on the install root fs.
InitEngineOn(fs) ==
  /\ tree \in Trees
  /\ casKeys \in SUBSET { cacache_key(Package[p]) : p \in tree }
  /\ blobs \in
       { UNION { { Digest(p, i) : i \in 1..Package[p].files } :
                 p \in { q \in Ids : cacache_key(Package[q]) \in casKeys } }
           \ lost : lost \in {{}, {Digest("A", 1)}, {Digest(Large, 1)}} }
  /\ dirs = fs.dirs
  /\ files = fs.files
  /\ links = fs.links
  /\ pc = Idle
  /\ cached = [p \in Ids |-> FALSE]
  /\ response = [p \in Ids |-> -1]
  /\ check = [p \in Ids |-> <<"pending">>]
  /\ events = [p \in Ids |-> <<>>]
  /\ result = [p \in Ids |-> "none"]
  /\ workers = [p \in Ids |-> <<>>]
  /\ joined = [p \in Ids |-> 0]
  /\ toLink = [p \in Ids |-> {}]
  /\ linkError = <<>>
  /\ exited = FALSE
  /\ fetches = 0
  /\ run = 1
  /\ before = fs
  /\ mode = "first"

\* The first run begins on an empty install root.
InitEngine ==
  InitEngineOn([dirs |-> {<<>>}, files |-> <<>>, links |-> <<>>])

\* The contents of a file that no blob of the CAS has.
StaleContents == 0

\* The relative paths a stale file is at: the path of the first file of a
\* package, or the path of the directory of its other files.
StalePaths == { FilePath(1), Parent(FilePath(2)) }

\* An install root that already holds, for every package of S, a regular
\* file at the relative path in the directory the warm path materializes
\* the package into, with other contents.
StaleRoot(S, relative) ==
  LET stale == { package_path(Package[p]) \o relative : p \in S }
  IN [ dirs |-> UNION { CreateDirAll({}, Parent(q)) : q \in stale },
       files |-> [q \in stale |-> StaleContents],
       links |-> <<>> ]

\* A directory of the install root that is no part of the store
OtherDir == Push(NodeModules, <<"x">>)

\* The directories of a package in the store that a link is in the place
\* of: the one its files are materialized into, and the node_modules
\* directory that one and its dependency links are in.
LinkedPaths(p) ==
  { package_path(Package[p]), Parent(package_path(Package[p])) }

\* An install root where the directory at is a symbolic link to another
\* directory, which exists.
LinkedRoot(at) ==
  [ dirs |-> CreateDirAll({}, Parent(at)) \cup CreateDirAll({}, OtherDir),
    files |-> <<>>,
    links |-> [q \in {at} |-> OtherDir] ]

\* The first run, of one package, begins on an install root with a stale
\* file of the package, or, for the small packages when they are in the
\* CAS, with a link in place of a directory of it.
InitStale ==
  \E p \in Ids :
    /\ \/ \E relative \in StalePaths : InitEngineOn(StaleRoot({p}, relative))
       \/ /\ p # Large
          /\ \E at \in LinkedPaths(p) : InitEngineOn(LinkedRoot(at))
          /\ casKeys # {}
    /\ tree = {p}

IdleVerify == vBytes = 0 /\ vSri = <<>> /\ vResult = <<"idle">>

IdleGzip == gzData = <<>> /\ gzResult = <<"idle">>

Log(p, op) == events' = [events EXCEPT ![p] = Append(@, op)]

\* The pipeline of the package has invoked the operation.
InLog(p, op) == \E i \in 1..Len(events[p]) : events[p][i] = op

Return(p, r) ==
  /\ pc' = [pc EXCEPT ![p] = "done"]
  /\ result' = [result EXCEPT ![p] = r]

\* install_package entry: match verify_existing_installation(&package, &config)
Start(p) ==
  /\ ~exited
  /\ p \in tree
  /\ pc[p] = "idle"
  /\ LET hit == verify_existing_installation(Package[p])
     IN /\ cached' = [cached EXCEPT ![p] = hit]
        /\ pc' = [pc EXCEPT ![p] = FirstStep(hit)]
  /\ UNCHANGED <<verifyVars, gzipVars, addVars, mode, tree, casKeys, blobs, dirs, files, links, response,
                 check, events, result, workers, joined, toLink, linkError,
                 exited, fetches, run, before>>

\* Warm path: the file map is collected into a Vec in an arbitrary order
\* and one spawn_blocking task is started per chunk of it.  A task is:
\* chunk, the entries of its chunk; todo, the entries its loop has not
\* finished; cur, the entry it is at (0: none); created_directories, its
\* clone of the Vec; mkdirs, the number of create_dir_all calls per
\* directory; written, the number of File::create calls per path.
SpawnChunks(p) ==
  /\ ~exited
  /\ pc[p] = "spawn"
  /\ \E c \in Chunkings(Package[p].files) :
       workers' = [workers EXCEPT ![p] =
         [k \in 1..Len(c) |->
            [chunk |-> c[k], todo |-> c[k], cur |-> 0, step |-> "pick",
             status |-> "running", created_directories |-> {},
             mkdirs |-> <<>>, written |-> <<>>]]]
  /\ joined' = [joined EXCEPT ![p] = 0]
  /\ pc' = [pc EXCEPT ![p] = "join"]
  /\ Log(p, "materialize")
  /\ UNCHANGED <<verifyVars, gzipVars, addVars, mode, tree, casKeys, blobs, dirs, files, links, cached,
                 response, check, result, toLink, linkError, exited, fetches,
                 run, before>>

\* File::create(&file_path).unwrap() of task w at its entry i: a panic when
\* the path is a directory or its directory does not exist, otherwise the
\* file exists and is empty
FileCreate(p, k, w, i) ==
  LET file_path == package_path(Package[p]) \o FileMap(p)[i][1]
      at == Lookup(file_path)
  IN IF at.kind \notin {"file", "missing"}
     THEN /\ workers' = [workers EXCEPT ![p][k] =
                [w EXCEPT !.cur = i, !.status = "panic"]]
          /\ UNCHANGED files
     ELSE /\ files' = WriteFile(files, at.path, EmptyContents)
          /\ workers' = [workers EXCEPT ![p][k] =
                [w EXCEPT !.cur = i, !.step = "write",
                          !.written = CountCall(@, file_path)]]

\* A chunk task begins the iteration of its loop for entry i, whichever
\* entry its chunk has next: read the blob, and unless the path is
\* remembered, remember it and call create_dir_all for its directory.  The
\* step goes as far as the first change of the file system: a mkdir is
\* left to ChunkMkdir; when no directory is missing it is File::create.
ChunkStep(p, k, i) ==
  /\ ~exited
  /\ pc[p] = "join"
  /\ k \in 1..Len(workers[p])
  /\ workers[p][k].status = "running"
  /\ workers[p][k].cur = 0
  /\ i \in workers[p][k].todo
  /\ LET w == workers[p][k]
         entry == FileMap(p)[i]
         file_path == package_path(Package[p]) \o entry[1]
         dir == package_path(Package[p]) \o Parent(entry[1])
         mk == NeedsCreateDir(w.created_directories, file_path, entry[1])
         w1 == IF mk
               THEN [w EXCEPT !.created_directories = @ \cup {file_path},
                              !.mkdirs = CountCall(@, dir)]
               ELSE w
     IN IF entry[2] \notin blobs
        THEN \* cacache::read_hash_sync fails: the task returns Err
             /\ workers' = [workers EXCEPT ![p][k] =
                  [w EXCEPT !.cur = i, !.status = "err"]]
             /\ UNCHANGED <<dirs, files>>
        ELSE IF mk /\ CreateDirBlocked(dir)
        THEN \* create_dir_all(..).into_diagnostic()? returns Err
             /\ workers' = [workers EXCEPT ![p][k] =
                  [w1 EXCEPT !.cur = i, !.status = "err"]]
             /\ UNCHANGED <<dirs, files>>
        ELSE IF mk /\ MissingDirs(dir) # {}
        THEN /\ workers' = [workers EXCEPT ![p][k] =
                  [w1 EXCEPT !.cur = i, !.step = "mkdir"]]
             /\ UNCHANGED <<dirs, files>>
        ELSE /\ FileCreate(p, k, w1, i)
             /\ UNCHANGED dirs
  /\ UNCHANGED <<verifyVars, gzipVars, addVars, mode, tree, casKeys, blobs, links, pc, cached, response,
                 check, events, result, joined, toLink, linkError, exited,
                 fetches, run, before>>

\* A chunk task inside create_dir_all: one mkdir of a missing component;
\* with none missing (another task made them) create_dir_all returns and
\* File::create follows.
ChunkMkdir(p, k) ==
  /\ ~exited
  /\ pc[p] = "join"
  /\ k \in 1..Len(workers[p])
  /\ workers[p][k].status = "running"
  /\ workers[p][k].step = "mkdir"
  /\ LET w == workers[p][k]
         dir == package_path(Package[p]) \o Parent(FileMap(p)[w.cur][1])
     IN IF CreateDirBlocked(dir)
        THEN /\ workers' = [workers EXCEPT ![p][k].status = "err"]
             /\ UNCHANGED <<dirs, files>>
        ELSE IF MissingDirs(dir) # {}
        THEN /\ dirs' = Mkdir(dirs, NextMkdir(dir))
             /\ UNCHANGED <<workers, files>>
        ELSE /\ FileCreate(p, k, w, w.cur)
             /\ UNCHANGED dirs
  /\ UNCHANGED <<verifyVars, gzipVars, addVars, mode, tree, casKeys, blobs, links, pc, cached, response,
                 check, events, result, joined, toLink, linkError, exited,
                 fetches, run, before>>

\* file.write_all(&contents).into_diagnostic()?: the file holds the blob and
\* the iteration ends, or a write fails and the task returns Err, the file
\* left empty or with a part of the blob
ChunkWrite(p, k, outcome) ==
  /\ ~exited
  /\ pc[p] = "join"
  /\ k \in 1..Len(workers[p])
  /\ workers[p][k].status = "running"
  /\ workers[p][k].step = "write"
  /\ LET w == workers[p][k]
         entry == FileMap(p)[w.cur]
         file_path == package_path(Package[p]) \o entry[1]
         at == Lookup(file_path).path
         last == w.todo = {w.cur}
     IN CASE outcome = "all" ->
               /\ files' = WriteFile(files, at, entry[2])
               /\ workers' = [workers EXCEPT ![p][k] =
                    [w EXCEPT !.todo = @ \ {w.cur}, !.cur = 0,
                              !.step = "pick",
                              !.status = IF last THEN "ok" ELSE "running"]]
          [] outcome = "part" ->
               /\ files' = WriteFile(files, at, PartOf(entry[2]))
               /\ workers' = [workers EXCEPT ![p][k].status = "err"]
          [] OTHER ->
               /\ workers' = [workers EXCEPT ![p][k].status = "err"]
               /\ UNCHANGED files
  /\ UNCHANGED <<verifyVars, gzipVars, addVars, mode, tree, casKeys, blobs, dirs, links, pc, cached, response,
                 check, events, result, joined, toLink, linkError, exited,
                 fetches, run, before>>

\* for handle in handles { handle.unwrap_or_else(exit).await.unwrap_or_else(exit) }
Join(p) ==
  /\ ~exited
  /\ pc[p] = "join"
  /\ joined[p] < Len(workers[p])
  /\ LET st == workers[p][joined[p] + 1].status
     IN /\ st # "running"
        /\ IF st = "ok"
           THEN joined' = [joined EXCEPT ![p] = @ + 1] /\ UNCHANGED exited
           ELSE exited' = TRUE /\ UNCHANGED joined
  /\ UNCHANGED <<verifyVars, gzipVars, addVars, mode, tree, casKeys, blobs, dirs, files, links, pc, cached,
                 response, check, events, result, workers, toLink, linkError,
                 fetches, run, before>>

\* A loop that goes on to link_dependencies once the first handle is awaited
JoinDoneAfterFirst(p) ==
  /\ ~exited
  /\ pc[p] = "join"
  /\ joined[p] >= 1
  /\ pc' = [pc EXCEPT ![p] = "call_link"]
  /\ UNCHANGED <<verifyVars, gzipVars, addVars, mode, tree, casKeys, blobs, dirs, files, links, cached,
                 response, check, events, result, workers, joined, toLink,
                 linkError, exited, fetches, run, before>>

\* Every handle awaited: on to link_dependencies(&package, &config)?
JoinDone(p) ==
  /\ ~exited
  /\ pc[p] = "join"
  /\ joined[p] = Len(workers[p])
  /\ pc' = [pc EXCEPT ![p] = "call_link"]
  /\ UNCHANGED <<verifyVars, gzipVars, addVars, mode, tree, casKeys, blobs, dirs, files, links, cached,
                 response, check, events, result, workers, joined, toLink,
                 linkError, exited, fetches, run, before>>

\* Cold path: fetch_tarball(&package, state).await? returns the bytes b
FetchOk(p, b) ==
  /\ ~exited
  /\ pc[p] = "fetch"
  /\ response' = [response EXCEPT ![p] = b]
  /\ fetches' = fetches + 1
  /\ pc' = [pc EXCEPT ![p] = "verify"]
  /\ Log(p, "fetch")
  /\ UNCHANGED <<verifyVars, gzipVars, addVars, mode, tree, casKeys, blobs, dirs, files, links, cached,
                 check, result, workers, joined, toLink, linkError, exited,
                 run, before>>

\* A failed fetch that is swallowed: install_package returns Ok(()).
FetchErrSwallowed(p) ==
  /\ ~exited
  /\ pc[p] = "fetch"
  /\ fetches' = fetches + 1
  /\ Return(p, "ok")
  /\ Log(p, "fetch")
  /\ UNCHANGED <<verifyVars, gzipVars, addVars, mode, tree, casKeys, blobs,
                 dirs, files, links, cached, response, check, workers, joined,
                 toLink, linkError, exited, run, before>>

\* Cold path: fetch_tarball fails and `?` returns the error
FetchErr(p) ==
  /\ ~exited
  /\ pc[p] = "fetch"
  /\ fetches' = fetches + 1
  /\ Return(p, "err")
  /\ Log(p, "fetch")
  /\ UNCHANGED <<verifyVars, gzipVars, addVars, mode, tree, casKeys, blobs, dirs, files, links, cached,
                 response, check, workers, joined, toLink, linkError, exited,
                 run, before>>

\* Cold path, in the blocking task: verify_checksum, then `if verified`
Verify(p) ==
  /\ ~exited
  /\ pc[p] = "verify"
  /\ LET r == verify_checksum(response[p], Package[p].integrity)
     IN /\ check' = [check EXCEPT ![p] = r]
        /\ IF AfterVerify(r[1]) = "return"
           THEN Return(p, "ok")   \* else { TODO }, then Ok(())
           ELSE /\ pc' = [pc EXCEPT ![p] = AfterVerify(r[1])]
                /\ UNCHANGED result
  /\ Log(p, "verify")
  /\ UNCHANGED <<verifyVars, gzipVars, addVars, mode, tree, casKeys, blobs, dirs, files, links, cached,
                 response, workers, joined, toLink, linkError, exited,
                 fetches, run, before>>

\* decompress_gzip(&response)?: the bytes are a gzip stream (ok) or not
Decompress(p, ok) ==
  /\ ~exited
  /\ pc[p] = "decompress"
  /\ IF ok
     THEN pc' = [pc EXCEPT ![p] = "extract"] /\ UNCHANGED result
     ELSE Return(p, "err")
  /\ Log(p, "decompress")
  /\ UNCHANGED <<verifyVars, gzipVars, addVars, mode, tree, casKeys, blobs, dirs, files, links, cached,
                 response, check, workers, joined, toLink, linkError, exited,
                 fetches, run, before>>

\* The files extract_tarball writes for the package
Extracted(p) ==
  { MaterializationRoot(Package[p].name, Package[p].version) \o FilePath(i) :
      i \in 1..Package[p].files }

\* extract_tarball(decompressed, &package, &config)?: writes the blobs and
\* the file map to the CAS and the files to the materialization root; an
\* error when a directory it is to create cannot be created.
Extract(p, ok) ==
  /\ ~exited
  /\ pc[p] = "extract"
  /\ IF ok /\ \A q \in Extracted(p) : ~CreateDirBlocked(Parent(q))
     THEN LET root == MaterializationRoot(Package[p].name, Package[p].version)
              n == Package[p].files
              written == Extracted(p)
              index == [q \in written |->
                          CHOOSE i \in 1..n : root \o FilePath(i) = q]
          IN /\ casKeys' = casKeys \cup {cacache_key(Package[p])}
             /\ blobs' = blobs \cup { Digest(p, i) : i \in 1..n }
             /\ dirs' = dirs \cup
                  UNION { CreateDirAll({}, Parent(q)) : q \in written }
             /\ files' = [q \in DOMAIN files \cup written |->
                            IF q \in written THEN Digest(p, index[q])
                            ELSE files[q]]
             /\ pc' = [pc EXCEPT ![p] = "script"]
             /\ UNCHANGED result
     ELSE /\ Return(p, "err")
          /\ UNCHANGED <<casKeys, blobs, dirs, files>>
  /\ Log(p, "extract")
  /\ UNCHANGED <<verifyVars, gzipVars, addVars, mode, tree, links, cached, response, check, workers, joined,
                 toLink, linkError, exited, fetches, run, before>>

\* generate_script(&config, &package): its unix body is empty
GenerateScript(p) ==
  /\ ~exited
  /\ pc[p] = "script"
  /\ pc' = [pc EXCEPT ![p] = "call_link"]
  /\ Log(p, "script")
  /\ UNCHANGED <<verifyVars, gzipVars, addVars, mode, tree, casKeys, blobs, dirs, files, links, cached,
                 response, check, result, workers, joined, toLink, linkError,
                 exited, fetches, run, before>>

\* link_dependencies(&package, &config) is entered
CallLink(p) ==
  /\ ~exited
  /\ pc[p] = "call_link"
  /\ pc' = [pc EXCEPT ![p] = "link"]
  /\ toLink' = [toLink EXCEPT ![p] = DependencyEntries(Package[p])]
  /\ Log(p, "link")
  /\ UNCHANGED <<verifyVars, gzipVars, addVars, mode, tree, casKeys, blobs, dirs, files, links, cached,
                 response, check, result, workers, joined, linkError, exited,
                 fetches, run, before>>

\* std::os::unix::fs::symlink(original, link): "ok", or the errno: the
\* directory part of link is resolved, links followed ("ENOENT", "ENOTDIR",
\* "ELOOP"), and nothing may exist at its last component ("EEXIST")
symlink(original, link) ==
  LET kind == LookupNoFollow(link).kind
  IN IF kind = "missing" THEN "ok"
     ELSE IF kind \in {"dir", "file", "link"} THEN "EEXIST"
     ELSE kind

\* link_dependencies: one iteration of the loop over the dependencies;
\* symlink(dependency_link_path, target_link_path).unwrap_or_else(exit(1))
LinkStep(p, entry) ==
  /\ ~exited
  /\ pc[p] = "link"
  /\ entry \in toLink[p]
  /\ LET original == dependency_link_path(Package[p], entry)
         link == target_link_path(Package[p], entry)
         errno == symlink(original, link)
         at == LookupNoFollow(link).path
     IN IF errno = "ok"
        THEN /\ links' = [q \in DOMAIN links \cup {at} |->
                            IF q = at THEN original ELSE links[q]]
             /\ toLink' = [toLink EXCEPT ![p] = @ \ {entry}]
             /\ UNCHANGED <<linkError, exited>>
        ELSE /\ exited' = TRUE
             /\ linkError' = <<p, entry, errno>>
             /\ UNCHANGED <<links, toLink>>
  /\ UNCHANGED <<verifyVars, gzipVars, addVars, mode, tree, casKeys, blobs, dirs, files, pc, cached,
                 response, check, events, result, workers, joined, fetches,
                 run, before>>

\* link_dependencies returns Ok(()), and so does install_package
LinkDone(p) ==
  /\ ~exited
  /\ pc[p] = "link"
  /\ toLink[p] = {}
  /\ Return(p, "ok")
  /\ UNCHANGED <<verifyVars, gzipVars, addVars, mode, tree, casKeys, blobs, dirs, files, links, cached,
                 response, check, events, workers, joined, toLink, linkError,
                 exited, fetches, run, before>>

\* The same install is run again, on the file system and the CAS as the
\* last run left them.
NextRun ==
  /\ ~exited
  /\ run < MaxRuns
  /\ \A p \in tree : pc[p] = "done"
  /\ run' = run + 1
  /\ before' = FileSystem
  /\ fetches' = 0
  /\ pc' = Idle
  /\ cached' = [p \in Ids |-> FALSE]
  /\ response' = [p \in Ids |-> -1]
  /\ check' = [p \in Ids |-> <<"pending">>]
  /\ events' = [p \in Ids |-> <<>>]
  /\ result' = [p \in Ids |-> "none"]
  /\ workers' = [p \in Ids |-> <<>>]
  /\ joined' = [p \in Ids |-> 0]
  /\ mode' = "again"
  /\ UNCHANGED <<verifyVars, gzipVars, addVars, tree, casKeys, blobs, dirs, files, links, toLink,
                 linkError, exited>>

NextEngine ==
  \/ \E p \in Ids :
       \/ Start(p)
       \/ SpawnChunks(p)
       \/ \E k \in 1..NumChunks(MaxFiles) :
            \/ \E i \in 1..MaxFiles : ChunkStep(p, k, i)
            \/ ChunkMkdir(p, k)
            \/ \E outcome \in WriteOutcomes : ChunkWrite(p, k, outcome)
       \/ Join(p)
       \/ JoinDone(p)
       \/ \E b \in Bytes : FetchOk(p, b)
       \/ FetchErr(p)
       \/ Verify(p)
       \/ \E ok \in BOOLEAN : Decompress(p, ok)
       \/ \E ok \in BOOLEAN : Extract(p, ok)
       \/ GenerateScript(p)
       \/ CallLink(p)
       \/ \E entry \in toLink[p] : LinkStep(p, entry)
       \/ LinkDone(p)

\* The process is killed during a run, between two steps of the pipelines,
\* and the same install is started again on what the killed run left.
Kill ==
  /\ ~exited
  /\ run < MaxRuns
  /\ \E p \in tree : pc[p] # "done"
  /\ run' = run + 1
  /\ before' = FileSystem
  /\ mode' = "killed"
  /\ fetches' = 0
  /\ pc' = Idle
  /\ cached' = [p \in Ids |-> FALSE]
  /\ response' = [p \in Ids |-> -1]
  /\ check' = [p \in Ids |-> <<"pending">>]
  /\ events' = [p \in Ids |-> <<>>]
  /\ result' = [p \in Ids |-> "none"]
  /\ workers' = [p \in Ids |-> <<>>]
  /\ joined' = [p \in Ids |-> 0]
  /\ toLink' = [p \in Ids |-> {}]
  /\ UNCHANGED <<verifyVars, gzipVars, addVars, tree, casKeys, blobs, dirs,
                 files, links, linkError, exited>>

\* Every package of the install went through the whole cold path, which
\* populated the CAS; the install root is deleted and the same install is
\* run again.  "before" keeps what the first run left.
DeleteRoot ==
  /\ ~exited
  /\ run < MaxRuns
  /\ mode = "first"
  /\ \A p \in tree :
       /\ pc[p] = "done" /\ result[p] = "ok"
       /\ ~cached[p] /\ InLog(p, "link")
  /\ run' = run + 1
  /\ before' = FileSystem
  /\ mode' = "fresh"
  /\ dirs' = {<<>>}
  /\ files' = <<>>
  /\ links' = <<>>
  /\ fetches' = 0
  /\ pc' = Idle
  /\ cached' = [p \in Ids |-> FALSE]
  /\ response' = [p \in Ids |-> -1]
  /\ check' = [p \in Ids |-> <<"pending">>]
  /\ events' = [p \in Ids |-> <<>>]
  /\ result' = [p \in Ids |-> "none"]
  /\ workers' = [p \in Ids |-> <<>>]
  /\ joined' = [p \in Ids |-> 0]
  /\ UNCHANGED <<verifyVars, gzipVars, addVars, tree, casKeys, blobs, toLink,
                 linkError, exited>>

NextRecover ==
  \/ NextEngine
  \/ NextRun
  \/ Kill
  \/ DeleteRoot

IdleEngine ==
  /\ tree = {} /\ casKeys = {} /\ blobs = {} /\ dirs = {} /\ files = <<>> /\ links = <<>>
  /\ pc = Idle /\ cached = [p \in Ids |-> FALSE]
  /\ response = [p \in Ids |-> -1] /\ check = [p \in Ids |-> <<"pending">>]
  /\ events = [p \in Ids |-> <<>>] /\ result = [p \in Ids |-> "none"]
  /\ workers = [p \in Ids |-> <<>>] /\ joined = [p \in Ids |-> 0]
  /\ toLink = [p \in Ids |-> {}] /\ linkError = <<>> /\ exited = FALSE
  /\ fetches = 0 /\ run = 0
  /\ before = [dirs |-> {}, files |-> <<>>, links |-> <<>>]
  /\ mode = "idle"


\* --------------------------------------------------------------- Add::exec

\* At most MaxRequests packages are named on the command line.
MaxRequests == 2

\* The names a request may carry.
RequestNames == {"x", "y"}

\* get_volt_response(package): the flattened tree of the requested package,
\* the package itself and the dependency "s" that every tree shares.
current_version_packages(package) == {package, "s"}

Requests == 1..Len(packages)

InitAdd ==
  /\ packages \in UNION { [1..n -> RequestNames] : n \in 1..MaxRequests }
  /\ dirExists \in [1..Len(packages) -> BOOLEAN]
  /\ mainPc = "loop"
  /\ loopIndex = 1
  /\ handles = <<>>
  /\ awaited = 0
  /\ taskPc = [i \in 1..Len(packages) |-> "none"]
  /\ futures = [i \in 1..Len(packages) |-> <<>>]
  /\ lockFile = [i \in 1..Len(packages) |-> {}]
  /\ lockDisk = {}
  /\ packageJson = {}
  /\ packageJsonDisk = {}
  /\ mutexOwner = 0
  /\ topLinks = {}
  /\ dead = FALSE
  /\ args = <<"add">> \o packages

IdleAdd ==
  /\ packages = <<>> /\ dirExists = <<>> /\ mainPc = "idle" /\ loopIndex = 0
  /\ handles = <<>> /\ awaited = 0 /\ taskPc = <<>> /\ futures = <<>>
  /\ lockFile = <<>> /\ lockDisk = {} /\ packageJson = {}
  /\ packageJsonDisk = {} /\ mutexOwner = 0 /\ topLinks = {} /\ dead = FALSE
  /\ args = <<>>

\* The body of request i is a spawned task (package_dir.exists()) or runs
\* inline in Add::exec.
Spawned(i) == dirExists[i]

\* The body of request i can take a step: the process has not ended and
\* the body has begun and has neither ended nor panicked.
Running(i) ==
  /\ ~dead
  /\ i \in Requests
  /\ taskPc[i] \notin {"none", "done", "panicked"}

\* An inline body has panicked: the panic unwinds Add::exec on the main
\* thread, which takes no further step.
MainPanicked ==
  \E i \in Requests : ~Spawned(i) /\ taskPc[i] = "panicked"

\* An unwrap() in the body of request i panics: the body ends and its
\* futures are dropped.  A spawned task ends with a JoinError; inline, it
\* is Add::exec that panics, and the spawned tasks run on, on the other
\* threads of the runtime, until the process ends (ProcessEnd).
Panic(i, fs) ==
  /\ futures' = [futures EXCEPT ![i] =
       [d \in DOMAIN fs |-> IF fs[d] \in {"done", "failed"} THEN fs[d]
                             ELSE "dropped"]]
  /\ taskPc' = [taskPc EXCEPT ![i] = "panicked"]
  /\ dead' = dead
  /\ mutexOwner' = IF mutexOwner = i THEN 0 ELSE mutexOwner

\* The panic of Add::exec has unwound the main thread and the runtime is
\* shut down: the process ends, whatever the spawned tasks were at.
ProcessEnd ==
  /\ ~dead
  /\ MainPanicked
  /\ dead' = TRUE
  /\ UNCHANGED <<verifyVars, gzipVars, engineVars, args, packages, dirExists,
                 mainPc, loopIndex, handles, awaited, taskPc, futures,
                 lockFile, lockDisk, packageJson, packageJsonDisk, mutexOwner,
                 topLinks>>

\* for package in packages.clone(): package_dir.exists(), tokio::spawn
SpawnTask ==
  /\ ~dead
  /\ mainPc = "loop"
  /\ loopIndex <= Len(packages)
  /\ Spawned(loopIndex)
  /\ handles' = Append(handles, loopIndex)
  /\ taskPc' = [taskPc EXCEPT ![loopIndex] = "load"]
  /\ loopIndex' = loopIndex + 1
  /\ UNCHANGED <<verifyVars, gzipVars, engineVars, args, packages, dirExists, mainPc, awaited,
                 futures, lockFile, lockDisk, packageJson, packageJsonDisk,
                 mutexOwner, topLinks, dead>>

\* for package in packages.clone(): the else branch runs the body inline
StartInline ==
  /\ ~dead
  /\ mainPc = "loop"
  /\ loopIndex <= Len(packages)
  /\ ~Spawned(loopIndex)
  /\ mainPc' = "inline"
  /\ taskPc' = [taskPc EXCEPT ![loopIndex] = "load"]
  /\ UNCHANGED <<verifyVars, gzipVars, engineVars, args, packages, dirExists, loopIndex,
                 handles, awaited, futures, lockFile, lockDisk, packageJson,
                 packageJsonDisk, mutexOwner, topLinks, dead>>

\* The inline body ended: the for loop goes on to the next package
EndInline ==
  /\ ~dead
  /\ mainPc = "inline"
  /\ taskPc[loopIndex] = "done"
  /\ mainPc' = "loop"
  /\ loopIndex' = loopIndex + 1
  /\ UNCHANGED <<verifyVars, gzipVars, engineVars, args, packages, dirExists, handles,
                 awaited, taskPc, futures, lockFile, lockDisk, packageJson,
                 packageJsonDisk, mutexOwner, topLinks, dead>>

\* The for loop is over: for handle in handles { handle.await?; }
EndLoop ==
  /\ ~dead
  /\ mainPc = "loop"
  /\ loopIndex = Len(packages) + 1
  /\ mainPc' = "await"
  /\ UNCHANGED <<verifyVars, gzipVars, engineVars, args, packages, dirExists, loopIndex,
                 handles, awaited, taskPc, futures, lockFile, lockDisk,
                 packageJson, packageJsonDisk, mutexOwner, topLinks, dead>>

\* handle.await?: the task ended; a JoinError makes Add::exec return it
AwaitHandle ==
  /\ ~dead
  /\ mainPc = "await"
  /\ awaited < Len(handles)
  /\ LET st == taskPc[handles[awaited + 1]]
     IN /\ st \in {"done", "panicked"}
        /\ IF st = "done"
           THEN awaited' = awaited + 1 /\ UNCHANGED mainPc
           ELSE mainPc' = "returned_err" /\ UNCHANGED awaited
  /\ UNCHANGED <<verifyVars, gzipVars, engineVars, args, packages, dirExists, loopIndex,
                 handles, taskPc, futures, lockFile, lockDisk, packageJson,
                 packageJsonDisk, mutexOwner, topLinks, dead>>

\* Ok(())
ReturnOk ==
  /\ ~dead
  /\ mainPc = "await"
  /\ awaited = Len(handles)
  /\ mainPc' = "returned_ok"
  /\ UNCHANGED <<verifyVars, gzipVars, engineVars, args, packages, dirExists, loopIndex,
                 handles, awaited, taskPc, futures, lockFile, lockDisk,
                 packageJson, packageJsonDisk, mutexOwner, topLinks, dead>>

\* LockFile::load(lock_file_path).unwrap_or_else(LockFile::new)
LoadLockFile(i) ==
  /\ Running(i)
  /\ taskPc[i] = "load"
  /\ lockFile' = [lockFile EXCEPT ![i] = lockDisk]
  /\ taskPc' = [taskPc EXCEPT ![i] = "response"]
  /\ UNCHANGED <<verifyVars, gzipVars, engineVars, args, packages, dirExists, mainPc,
                 loopIndex, handles, awaited, futures, lockDisk, packageJson,
                 packageJsonDisk, mutexOwner, topLinks, dead>>

\* get_volt_response(package).await, the lock_file.dependencies.insert of
\* every package of the tree, and workers.push of one future per package
PushWorkers(i) ==
  /\ Running(i)
  /\ taskPc[i] = "response"
  /\ LET tree_i == current_version_packages(packages[i])
     IN /\ lockFile' = [lockFile EXCEPT ![i] = @ \cup tree_i]
        /\ futures' = [futures EXCEPT ![i] = [d \in tree_i |-> "download"]]
  /\ taskPc' = [taskPc EXCEPT ![i] = "workers"]
  /\ UNCHANGED <<verifyVars, gzipVars, engineVars, args, packages, dirExists, mainPc,
                 loopIndex, handles, awaited, lockDisk, packageJson,
                 packageJsonDisk, mutexOwner, topLinks, dead>>

\* install_extract_package: download_tarball(&app, &package).await?, and
\* the unwrap() of the worker on its error
Download(i, d, ok) ==
  /\ Running(i)
  /\ taskPc[i] = "workers"
  /\ d \in DOMAIN futures[i]
  /\ futures[i][d] = "download"
  /\ IF ok
     THEN /\ futures' = [futures EXCEPT ![i][d] = "extract"]
          /\ UNCHANGED <<taskPc, dead, mutexOwner>>
     ELSE Panic(i, [futures[i] EXCEPT ![d] = "failed"])
  /\ UNCHANGED <<verifyVars, gzipVars, engineVars, args, packages, dirExists, mainPc,
                 loopIndex, handles, awaited, lockFile, lockDisk, packageJson,
                 packageJsonDisk, topLinks>>

\* install_extract_package: app.extract_tarball(..).await.with_context(..)?,
\* and the unwrap() of the worker on its error
ExtractTarball(i, d, ok) ==
  /\ Running(i)
  /\ taskPc[i] = "workers"
  /\ d \in DOMAIN futures[i]
  /\ futures[i][d] = "extract"
  /\ IF ok
     THEN /\ futures' = [futures EXCEPT ![i][d] = "script"]
          /\ UNCHANGED <<taskPc, dead, mutexOwner>>
     ELSE Panic(i, [futures[i] EXCEPT ![d] = "failed"])
  /\ UNCHANGED <<verifyVars, gzipVars, engineVars, args, packages, dirExists, mainPc,
                 loopIndex, handles, awaited, lockFile, lockDisk, packageJson,
                 packageJsonDisk, topLinks>>

\* install_extract_package: generate_script, Ok(()); the worker's own
\* generate_script(&dep); the future completes
FinishWorker(i, d) ==
  /\ Running(i)
  /\ taskPc[i] = "workers"
  /\ d \in DOMAIN futures[i]
  /\ futures[i][d] = "script"
  /\ futures' = [futures EXCEPT ![i][d] = "done"]
  /\ UNCHANGED <<verifyVars, gzipVars, engineVars, args, packages, dirExists, mainPc,
                 loopIndex, handles, awaited, taskPc, lockFile, lockDisk,
                 packageJson, packageJsonDisk, mutexOwner, topLinks, dead>>

\* A drain loop that ends as soon as one worker has completed.
WorkersDrainedAfterFirst(i) ==
  \E d \in DOMAIN futures[i] : futures[i][d] = "done"

\* while workers.next().await.is_some() {} is over: every worker completed
WorkersDrained(i) ==
  \A d \in DOMAIN futures[i] : futures[i][d] = "done"

\* while workers.next().await.is_some() {} has drained the workers;
\* create_dep_symlinks(package, ..).await.unwrap() for the requested package
CreateDepSymlinks(i, ok) ==
  /\ Running(i)
  /\ taskPc[i] = "workers"
  /\ WorkersDrained(i)
  /\ IF ok
     THEN /\ topLinks' = topLinks \cup {packages[i]}
          /\ taskPc' = [taskPc EXCEPT ![i] =
               IF Spawned(i) THEN "package_json" ELSE "save_lock"]
          /\ UNCHANGED <<futures, dead, mutexOwner>>
     ELSE /\ Panic(i, futures[i])
          /\ UNCHANGED topLinks
  /\ UNCHANGED <<verifyVars, gzipVars, engineVars, args, packages, dirExists, mainPc,
                 loopIndex, handles, awaited, lockFile, lockDisk, packageJson,
                 packageJsonDisk>>

\* A body that inserts into its own copy of package.json and saves it.
UpdatePackageJsonOwnCopy(i) ==
  /\ Running(i)
  /\ taskPc[i] = "package_json"
  /\ packageJsonDisk' = {packages[i]}
  /\ taskPc' = [taskPc EXCEPT ![i] = "save_lock"]
  /\ UNCHANGED <<verifyVars, gzipVars, engineVars, args, packages, dirExists,
                 mainPc, loopIndex, handles, awaited, futures, lockFile,
                 lockDisk, packageJson, mutexOwner, topLinks, dead>>

\* Spawned body only: package_file.lock().await, dependencies.insert, save()
UpdatePackageJson(i) ==
  /\ Running(i)
  /\ taskPc[i] = "package_json"
  /\ mutexOwner = 0
  /\ mutexOwner' = i
  /\ packageJson' = packageJson \cup {packages[i]}
  /\ packageJsonDisk' = packageJson \cup {packages[i]}
  /\ taskPc' = [taskPc EXCEPT ![i] = "save_lock"]
  /\ UNCHANGED <<verifyVars, gzipVars, engineVars, args, packages, dirExists, mainPc,
                 loopIndex, handles, awaited, futures, lockFile, lockDisk,
                 topLinks, dead>>

\* lock_file.save().context(..).unwrap(); the body ends and drops the guard
SaveLockFile(i, ok) ==
  /\ Running(i)
  /\ taskPc[i] = "save_lock"
  /\ IF ok
     THEN /\ lockDisk' = lockFile[i]
          /\ taskPc' = [taskPc EXCEPT ![i] = "done"]
          /\ mutexOwner' = IF mutexOwner = i THEN 0 ELSE mutexOwner
          /\ UNCHANGED <<futures, dead>>
     ELSE /\ Panic(i, futures[i])
          /\ UNCHANGED lockDisk
  /\ UNCHANGED <<verifyVars, gzipVars, engineVars, args, packages, dirExists, mainPc,
                 loopIndex, handles, awaited, lockFile, packageJson,
                 packageJsonDisk, topLinks>>

NextAdd ==
  \/ ProcessEnd
  \/ SpawnTask
  \/ StartInline
  \/ EndInline
  \/ EndLoop
  \/ AwaitHandle
  \/ ReturnOk
  \/ \E i \in 1..MaxRequests :
       \/ LoadLockFile(i)
       \/ PushWorkers(i)
       \/ \E d \in RequestNames \cup {"s"}, ok \in BOOLEAN :
            \/ Download(i, d, ok)
            \/ ExtractTarball(i, d, ok)
       \/ \E d \in RequestNames \cup {"s"} : FinishWorker(i, d)
       \/ \E ok \in BOOLEAN : CreateDepSymlinks(i, ok)
       \/ UpdatePackageJson(i)
       \/ \E ok \in BOOLEAN : SaveLockFile(i, ok)

\* ----------------------------------------------------------- Install::exec

\* The names package.json may list as dependencies.
DependencyNames == RequestNames \cup {"add"}

\* The orders a HashMap of these keys can be iterated in.
Orderings(S) ==
  { f \in [1..Cardinality(S) -> S] :
      \A i, j \in 1..Cardinality(S) : i # j => f[i] # f[j] }

\* Install::exec is entered: package.json lists at most MaxRequests names.
InitInstall ==
  /\ packageJsonDisk \in
       { S \in SUBSET DependencyNames : Cardinality(S) <= MaxRequests }
  /\ packageJson = {}
  /\ args = <<>>
  /\ packages = <<>>
  /\ dirExists = <<>>
  /\ mainPc = "install"
  /\ loopIndex = 0
  /\ handles = <<>>
  /\ awaited = 0
  /\ taskPc = <<>>
  /\ futures = <<>>
  /\ lockFile = <<>>
  /\ lockDisk = {}
  /\ mutexOwner = 0
  /\ topLinks = {}
  /\ dead = FALSE

\* Install::exec: app.args = the dependency names of package.json, then
\* Add::exec(Arc::new(app))
InstallExec ==
  /\ mainPc = "install"
  /\ args' \in Orderings(packageJsonDisk)
  /\ mainPc' = "exec"
  /\ UNCHANGED <<verifyVars, gzipVars, engineVars, packages, dirExists,
                 loopIndex, handles, awaited, taskPc, futures, lockFile,
                 lockDisk, packageJson, packageJsonDisk, mutexOwner, topLinks,
                 dead>>

\* Add::exec up to its for loop: `if app.args.len() == 1` prints the help
\* and exits; packages = the args other than "add"; package.json is loaded.
ExecArgs ==
  /\ mainPc = "exec"
  /\ IF Len(args) = 1
     THEN /\ mainPc' = "help_exit"
          /\ UNCHANGED <<packages, dirExists, loopIndex, taskPc, futures,
                         lockFile, packageJson>>
     ELSE LET pk == SelectSeq(args, LAMBDA arg : arg # "add")
          IN /\ packages' = pk
             /\ dirExists' \in [1..Len(pk) -> BOOLEAN]
             /\ taskPc' = [i \in 1..Len(pk) |-> "none"]
             /\ futures' = [i \in 1..Len(pk) |-> <<>>]
             /\ lockFile' = [i \in 1..Len(pk) |-> {}]
             /\ packageJson' = packageJsonDisk
             /\ loopIndex' = 1
             /\ mainPc' = "loop"
  /\ UNCHANGED <<verifyVars, gzipVars, engineVars, args, handles, awaited,
                 lockDisk, packageJsonDisk, mutexOwner, topLinks, dead>>

NextInstall ==
  \/ InstallExec
  \/ ExecArgs
  \/ NextAdd

\* ---------------------------------------------------------- specifications

\* The install engine: every package's install_package call, concurrently,
\* for the trees of the small packages.
Init == InitEngine /\ Large \notin tree /\ IdleVerify /\ IdleGzip /\ IdleAdd

Spec == Init /\ [][NextEngine]_vars

\* The install engine on an install root that holds stale files.
InitS == InitStale /\ IdleVerify /\ IdleGzip /\ IdleAdd

SpecStale == InitS /\ [][NextEngine]_vars

\* The install engine run more than once: after a run that ended, after a
\* run that was killed, and on a deleted root.  The installs are those of
\* the small packages, at most one of them in the CAS before the first run.
InitR == Init /\ Cardinality(casKeys) <= 1

SpecRecover == InitR /\ [][NextRecover]_vars

\* The install engine for the large package, the one of several chunks.
InitL == InitEngine /\ tree = {Large} /\ IdleVerify /\ IdleGzip /\ IdleAdd

SpecLarge == InitL /\ [][NextEngine]_vars

\* verify_checksum applied to every input of Bytes x SriInputs.
InitV == InitVerify /\ IdleGzip /\ IdleEngine /\ IdleAdd

SpecVerify == InitV /\ [][NextVerify]_vars

\* Add::exec on the requested packages, its spawned tasks running with it.
InitA == InitAdd /\ IdleEngine /\ IdleVerify /\ IdleGzip

SpecAdd == InitA /\ [][NextAdd]_vars

\* Install::exec on the dependencies of package.json.
InitI == InitInstall /\ IdleEngine /\ IdleVerify /\ IdleGzip

SpecInstall == InitI /\ [][NextInstall]_vars

\* decompress_gzip applied to every input of GzInputs.
InitG == InitGzip /\ IdleVerify /\ IdleEngine /\ IdleAdd

SpecGzip == InitG /\ [][NextGzip]_vars

\* ------------------------------------------------------------------ claims

InEvents(p, op) == \E i \in 1..Len(events[p]) : events[p][i] = op

\* verify_checksum reported that the fetched bytes do not match
Mismatch(p) == Len(check[p]) = 2 /\ check[p][1] = FALSE

\* <node_modules>/.volt/<name+>@<version>: the directory that holds the
\* package's materialization root and its dependency links
StoreDir(pkg) ==
  Push(Push(NodeModules, <<".volt">>),
       AtVersion(ReplaceChar(pkg.name, "/", "+"), pkg.version))

AllPaths == dirs \cup DOMAIN files \cup DOMAIN links

\* C1: integrity gate.  On the cold path, once verify_checksum has reported
\* a mismatch for a package, decompress_gzip, extract_tarball,
\* generate_script and link_dependencies are never invoked for it, and
\* nothing (directory, file or link) exists under its directory of the store.
C1_IntegrityGate ==
  \A p \in Ids :
    Mismatch(p) =>
      /\ ~cached[p]
      /\ \A op \in {"decompress", "extract", "script", "link", "materialize"} :
           ~InEvents(p, op)
      /\ \A q \in AllPaths : ~IsUnder(q, StoreDir(Package[p]))

\* A package whose fetched bytes did not match finished its pipeline while
\* another package of the same install was written to the store.
C1_Witness ==
  \E p \in Ids :
    /\ Mismatch(p)
    /\ pc[p] = "done"
    /\ \E q \in DOMAIN files : TRUE

\* C2: when the fetched bytes do not match package.integrity, install_package
\* ends with an error for the package and never reports success.
C2_MismatchIsReportedAsFailure ==
  \A p \in Ids : (Mismatch(p) /\ pc[p] = "done") => result[p] = "err"

\* The digest string verify_checksum is to compare with: sha1 when the SRI
\* string starts with "sha1", sha512 otherwise.
ComputedDigest(bytes, sri) ==
  calc_hash(bytes, IF StartsWith(sri, PrefixSha1) THEN "Sha1" ELSE "Sha512")

IsMultiHash(sri) == Contains(sri, " ")

NamesOtherAlgorithm(sri) ==
  /\ ~StartsWith(sri, PrefixSha1 \o <<"-">>)
  /\ ~StartsWith(sri, PrefixSha512 \o <<"-">>)

\* C3: verify_checksum returns (true, None) exactly when the computed digest
\* string equals the entire SRI string; otherwise it returns
\* (false, Some(computed digest)); a multi-hash SRI string and one that
\* names another algorithm are never reported ok.
C3_VerifyChecksum ==
  Len(vResult) = 2 =>
    /\ (vResult = <<TRUE, <<"None">>>>) <=> (ComputedDigest(vBytes, vSri) = vSri)
    /\ (vResult[1] = FALSE) <=>
         (vResult = <<FALSE, <<"Some", ComputedDigest(vBytes, vSri)>>>>)
    /\ (IsMultiHash(vSri) \/ NamesOtherAlgorithm(vSri)) => vResult[1] = FALSE

\* verify_checksum was applied to a multi-hash SRI string whose first
\* alternative is the digest of the bytes.
C3_Witness ==
  /\ Len(vResult) = 2
  /\ IsMultiHash(vSri)
  /\ FirstAlternative(vSri) = ComputedDigest(vBytes, vSri)

\* C4: warm-cache skip.  When the CAS read of the package key succeeded, the
\* pipeline of the package invokes no fetch, no verification, no
\* decompression and no extraction: it materializes from the cached file
\* map, then calls link_dependencies, and nothing else.
C4_WarmCacheSkip ==
  \A p \in Ids :
    cached[p] =>
      /\ events[p] \in {<<>>, <<"materialize">>, <<"materialize", "link">>}
      /\ response[p] = -1
      /\ check[p] = <<"pending">>
      /\ InEvents(p, "link") =>
           \A k \in 1..Len(workers[p]) : workers[p][k].status = "ok"
      /\ pc[p] = "done" => events[p] = <<"materialize", "link">>

\* A cached package went through materialization and link_dependencies.
C4_Witness ==
  \E p \in Ids :
    /\ cached[p]
    /\ pc[p] = "done"
    /\ result[p] = "ok"
    /\ Len(workers[p]) > 1

\* A write_all of a chunk task failed in the current run (an I/O error of
\* the disk, not a step of the install).
WriteFailed ==
  \E p \in Ids : \E k \in 1..Len(workers[p]) :
    workers[p][k].status = "err" /\ workers[p][k].step = "write"

\* Every package of the install was in the CAS when the current run began.
WarmRun ==
  \A p \in tree :
    /\ cacache_key(Package[p]) \in casKeys
    /\ pc[p] = "idle" \/ cached[p]

\* C5: idempotence.  A second run of the same install on a warm CAS, after
\* a first run that ended, succeeds for every package (no write to the disk
\* failing), fetches nothing and leaves the file system as the first run
\* left it.
C5_SecondRunIsIdempotent ==
  (run >= 2 /\ mode = "again" /\ WarmRun /\ ~WriteFailed) =>
    /\ ~exited
    /\ \A p \in tree : result[p] # "err"
    /\ fetches = 0
    /\ (\A p \in tree : pc[p] = "done") => FileSystem = before

\* C6: an entry that already exists at the link path and already points at
\* the intended target counts as success: link_dependencies does not
\* terminate the process on it.
C6_ExistingLinkIsSuccess ==
  \A p \in Ids : \A entry \in DependencyEntries(Package[p]) :
    LET link == target_link_path(Package[p], entry)
    IN ( /\ linkError = <<p, entry, "EEXIST">>
         /\ link \in DOMAIN links
         /\ links[link] = dependency_link_path(Package[p], entry) )
       => ~exited

\* The warm path of the package has written every file of its file map.
Materialized(p) ==
  /\ cached[p]
  /\ pc[p] \in {"call_link", "link", "done"}

\* C7: the directory the warm path materializes a package into is
\* <node_modules>/.volt/<name+>@<version>/node_modules/<name>, the directory
\* link_dependencies points a link to the package at: once the warm path
\* has materialized a package, its files are in that directory.
C7_WarmRootIsLinkDestination ==
  \A p \in Ids :
    Materialized(p) =>
      LET pkg == Package[p]
          destination == dependency_link_path(pkg, <<pkg.name, pkg.version>>)
      IN /\ package_path(pkg) = MaterializationRoot(pkg.name, pkg.version)
         /\ package_path(pkg) = destination
         /\ \A i \in 1..pkg.files :
              (destination \o FilePath(i)) \in DOMAIN files

\* link_dependencies was called for the package and has ended: it returned,
\* or it terminated the process.
LinkEnded(p) ==
  /\ InEvents(p, "link")
  /\ \/ pc[p] = "done"
     \/ exited /\ Len(linkError) = 3 /\ linkError[1] = p

\* C8: once link_dependencies has ended for a package, every entry
\* (dep_name, dep_version) of its dependencies has its link, located at
\* .volt/<name+>@<version>/node_modules/<dep_name> and pointing to
\* .volt/<dep_name+>@<dep_version>/node_modules/<dep_name>; a package
\* without dependencies has no link.
C8_OneLinkPerDependency ==
  \A p \in Ids :
    LinkEnded(p) =>
      LET pkg == Package[p]
          slot(entry) == Push(Push(StoreDir(pkg), <<"node_modules">>), entry[1])
      IN /\ \A entry \in DependencyEntries(pkg) :
              /\ slot(entry) \in DOMAIN links
              /\ links[slot(entry)] = MaterializationRoot(entry[1], entry[2])
         /\ \A q \in DOMAIN links :
              IsUnder(q, StoreDir(pkg)) =>
                \E entry \in DependencyEntries(pkg) : q = slot(entry)

\* The pipeline of dependency d in the body of request i was cut off before
\* it completed: its future was dropped, or the process ended under it.
Aborted(i, d) ==
  \/ futures[i][d] = "dropped"
  \/ dead /\ futures[i][d] \notin {"done", "failed"}

\* C9: failure isolation.  When the pipeline of one package fails, every
\* other scheduled pipeline still runs to its own completion: none is cut
\* off by the failure.
C9_FailureIsIsolated ==
  \A i \in Requests : \A d \in DOMAIN futures[i] :
    futures[i][d] = "failed" =>
      \A j \in Requests : \A e \in DOMAIN futures[j] : ~Aborted(j, e)

\* C10: Add::exec returns, with Ok or with an error, only after the body of
\* every request (spawned task or inline) and every pipeline it scheduled
\* has ended.
C10_ReturnsAfterAllWork ==
  mainPc \in {"returned_ok", "returned_err"} =>
    \A i \in Requests :
      /\ taskPc[i] \in {"done", "panicked"}
      /\ \A d \in DOMAIN futures[i] :
           futures[i][d] \in {"done", "failed", "dropped"}

\* The body of request i is past its create_dep_symlinks call.
PastTopLink(i) ==
  \/ taskPc[i] \in {"package_json", "save_lock", "done"}
  \/ taskPc[i] = "panicked" /\ WorkersDrained(i)

\* C11: the top-level link of a requested package exists only when the body
\* of a request for it is past create_dep_symlinks with the pipeline of
\* every package of its flattened tree completed; a body is never past that
\* call while one of its pipelines is still running, has failed or was
\* dropped.
C11_TopLinkAfterAllPipelines ==
  /\ \A n \in topLinks :
       \E i \in Requests :
         /\ packages[i] = n
         /\ PastTopLink(i)
         /\ \A d \in current_version_packages(n) :
              d \in DOMAIN futures[i] /\ futures[i][d] = "done"
  /\ \A i \in Requests :
       taskPc[i] \in {"package_json", "save_lock", "done"} =>
         \A d \in DOMAIN futures[i] : futures[i][d] = "done"

\* A request's top-level link was created while the body of another request
\* had a pipeline that failed.
C11_Witness ==
  \E i, j \in Requests :
    /\ packages[i] \in topLinks
    /\ taskPc[i] = "done"
    /\ packages[j] \notin topLinks
    /\ \E d \in DOMAIN futures[j] : futures[j][d] = "failed"

\* The operations of the cold path, in the order install_package invokes them.
ColdOrder == <<"fetch", "verify", "decompress", "extract", "script", "link">>

IsPrefix(s, t) == Len(s) <= Len(t) /\ SubSeq(t, 1, Len(s)) = s

\* C12: within one package the steps are strictly ordered.  On the cold
\* path the operations invoked so far are a prefix of fetch, verify,
\* decompress, extract, script, link, and each began after the one before it
\* ended: verification has the fetched bytes, decompression follows a
\* successful verification, the links follow the extraction.  On the warm
\* path link_dependencies is called only when every chunk task has
\* completed and every file of the file map is written.
C12_StepsAreOrdered ==
  \A p \in Ids :
    /\ ~cached[p] =>
         /\ IsPrefix(events[p], ColdOrder)
         /\ InEvents(p, "verify") => response[p] \in Bytes /\ Len(check[p]) = 2
         /\ InEvents(p, "decompress") => check[p][1] = TRUE
         /\ InEvents(p, "link") =>
              \A i \in 1..Package[p].files : Digest(p, i) \in blobs
    /\ cached[p] =>
         /\ IsPrefix(events[p], <<"materialize", "link">>)
         /\ InEvents(p, "link") =>
              /\ joined[p] = Len(workers[p])
              /\ Len(workers[p]) = NumChunks(Package[p].files)
              /\ \A k \in 1..Len(workers[p]) : workers[p][k].status = "ok"
              /\ \A i \in 1..Package[p].files :
                   (package_path(Package[p]) \o FilePath(i)) \in DOMAIN files

\* A package of more than one chunk went through the warm path: every
\* handle was awaited, link_dependencies was called and has returned Ok.
C12_Witness ==
  \E p \in Ids :
    /\ cached[p]
    /\ Len(workers[p]) > 1
    /\ events[p] = <<"materialize", "link">>
    /\ pc[p] = "done"
    /\ result[p] = "ok"

\* The CAS holds every blob of every package of the install.
CasComplete ==
  \A p \in tree : \A i \in 1..Package[p].files : Digest(p, i) \in blobs

\* The directories the warm path of the package creates.
WarmDirs(p) ==
  UNION { CreateDirAll({}, package_path(Package[p]) \o Parent(FilePath(i))) :
            i \in 1..Package[p].files }

\* On an empty install root the warm install of the tree runs to its end:
\* every link is created in a directory that the package's own
\* materialization has created.
CleanInstallSucceeds ==
  \A p \in tree : \A entry \in DependencyEntries(Package[p]) :
    Parent(target_link_path(Package[p], entry)) \in WarmDirs(p)

\* C13: crash safety.  When a run was killed and the same install is run
\* again (here on a complete CAS, for a tree whose uninterrupted install
\* succeeds, no write to the disk failing), the new run succeeds: the
\* process is not terminated and no package ends with an error.
C13_RunAfterKillSucceeds ==
  (mode = "killed" /\ WarmRun /\ CasComplete /\ CleanInstallSucceeds
     /\ ~WriteFailed) =>
    /\ ~exited
    /\ \A p \in tree : result[p] # "err"

\* C14: warm/cold equivalence.  After a cold run that populated the CAS and
\* the deletion of the install root, the warm run of the same install ends
\* with the files, directories and links the cold run ended with.
C14_WarmEqualsCold ==
  (mode = "fresh" /\ \A p \in tree : pc[p] = "done" /\ cached[p]) =>
    FileSystem = before

\* The pipeline of package d in the body of request i has begun and has not
\* ended: its download is over, its extraction or its script step is not.
InFlight(i, d) ==
  /\ ~dead
  /\ taskPc[i] = "workers"
  /\ d \in DOMAIN futures[i]
  /\ futures[i][d] \in {"extract", "script"}

\* C15: a package is materialized by at most one task at a time: no two
\* request bodies have a pipeline for the same package in flight together,
\* also when the two requested packages share a dependency.
C15_OnePipelinePerPackage ==
  \A i, j \in Requests :
    i # j => \A d \in DOMAIN futures[i] : ~(InFlight(i, d) /\ InFlight(j, d))

\* The dependency entry names a package of this install.
Installed(entry) ==
  \E q \in tree :
    Package[q].name = entry[1] /\ Package[q].version = entry[2]

\* C16: link_dependencies creates links only for dependencies that are
\* installed: when a dependency of a package is not part of the install
\* (it was excluded as incompatible with the platform), the link to it
\* inside the package's directory is never created.
C16_NoLinkToExcludedDependency ==
  \A p \in tree : \A entry \in DependencyEntries(Package[p]) :
    ~Installed(entry) =>
      target_link_path(Package[p], entry) \notin DOMAIN links

\* C17: when Add::exec has returned Ok, package.json on disk lists every
\* requested package, whether its body ran as a spawned task (the package
\* directory existed) or inline (it did not).
C17_PackageJsonListsRequested ==
  mainPc = "returned_ok" =>
    \A i \in Requests : packages[i] \in packageJsonDisk

\* Every dependency of every package of the install is in the install.
Closed ==
  \A p \in tree : \A entry \in DependencyEntries(Package[p]) :
    Installed(entry)

\* C20: for a closed dependency graph, cycles included, once
\* install_package has returned Ok for every package, every link that was
\* created points to a directory that exists.
C20_NoDanglingLink ==
  (Closed /\ \A p \in tree : pc[p] = "done" /\ result[p] = "ok") =>
    \A q \in DOMAIN links : links[q] \in dirs

\* C18: install runs the add pipeline for every dependency name listed in
\* package.json: once Add::exec is past its argument handling it has not
\* exited with the help text, and the packages its loop goes over are the
\* listed names, for no name, one name or several names, whatever the name.
C18_InstallAddsEveryDependency ==
  mainPc \notin {"idle", "install", "exec"} =>
    /\ mainPc # "help_exit"
    /\ packages = args

\* C19: when decompress_gzip returns Ok, the length of the buffer is the
\* little-endian value of the last four bytes of the input, and the buffer
\* is neither longer nor shorter than the data that was decompressed.
C19_OutputLengthIsDecompressedLength ==
  gzResult[1] = "Ok" =>
    LET e == EndBytes(gzData)
    IN /\ gzResult[2] = from_le_bytes(SubSeq(e, Len(e) - 3, Len(e)))
       /\ gzResult[2] = gzResult[3]

\* C21: once the warm path has materialized a package, every entry
\* (relative path, digest) of its file map has its file in the directory the
\* warm path materializes into, and the file's contents are the blob of the
\* digest, whatever the path held before the run.
C21_MaterializedFilesHoldTheBlobs ==
  \A p \in Ids :
    Materialized(p) =>
      \A i \in 1..Package[p].files :
        LET file_path == package_path(Package[p]) \o FilePath(i)
            at == Lookup(file_path)
        IN /\ at.kind = "file"
           /\ files[at.path] = Digest(p, i)
           /\ Digest(p, i) \in blobs

\* The warm path materialized a package whose first file existed with
\* other contents when the run began.
C21_Witness ==
  \E p \in Ids :
    LET file_path == package_path(Package[p]) \o FilePath(1)
    IN /\ Materialized(p)
       /\ run = 1
       /\ file_path \in DOMAIN before.files
       /\ before.files[file_path] = StaleContents
       /\ Len(workers[p]) > 1

\* The fetch of the package's tarball failed in this run.
FetchFailed(p) == InEvents(p, "fetch") /\ response[p] = -1

\* C22: when fetch_tarball fails, install_package has returned the error
\* and has invoked no verification, decompression, extraction, script
\* generation or link creation for the package; the call left the CAS and
\* the install root as they were: the package's key and blobs are not in
\* the CAS and nothing is in its directory of the store that was not there
\* when the run began.
C22_FetchFailureChangesNothing ==
  \A p \in Ids :
    FetchFailed(p) =>
      /\ pc[p] = "done"
      /\ result[p] = "err"
      /\ events[p] = <<"fetch">>
      /\ check[p] = <<"pending">>
      /\ cacache_key(Package[p]) \notin casKeys
      /\ \A i \in 1..Package[p].files : Digest(p, i) \notin blobs
      /\ \A q \in AllPaths :
           IsUnder(q, StoreDir(Package[p])) =>
             q \in before.dirs \cup DOMAIN before.files \cup DOMAIN before.links

\* The fetch of one package failed while another package of the same
\* install was written to the store.
C22_Witness ==
  \E p \in Ids :
    /\ FetchFailed(p)
    /\ files # <<>>
    /\ links # <<>>

\* C23: decompress_gzip returns an error value for every input that is not
\* a gzip stream, inputs shorter than four bytes and the empty input
\* included; it never panics.
C23_MalformedInputIsAnError ==
  /\ gzResult[1] # "panic"
  /\ (gzData[1] = "raw" /\ gzResult # <<"pending">>) => gzResult[1] = "Err"

\* The limit on the chunk workers of one package that run at once, and on
\* the pipelines of one request that are in flight at once, which the claim
\* speaks of; the large package of the model has two chunks and the tree
\* of a request two packages.
WorkerLimit == 1

\* The chunk workers of the package that were spawned and have not ended.
RunningWorkers(p) ==
  { k \in 1..Len(workers[p]) : workers[p][k].status = "running" }

\* The pipelines of request i that are in flight.
PipelinesInFlight(i) == { d \in DOMAIN futures[i] : InFlight(i, d) }

\* C24: backpressure.  The chunk workers of a package that run at once,
\* and the pipelines of a request that are in flight at once, never exceed
\* the fixed limit, however many files the package has and however many
\* packages the tree has.
C24_FanOutIsBounded ==
  /\ \A p \in Ids : Cardinality(RunningWorkers(p)) <= WorkerLimit
  /\ \A i \in Requests : Cardinality(PipelinesInFlight(i)) <= WorkerLimit

\* C25: within one chunk worker create_dir_all is called at most once for
\* each directory, however many files of the chunk are in it.
C25_OneMkdirPerDirectory ==
  \A p \in Ids : \A k \in 1..Len(workers[p]) :
    LET mkdirs == workers[p][k].mkdirs
    IN \A dir \in DOMAIN mkdirs : mkdirs[dir] <= 1

\* The paths the k-th chunk worker of the package has written, as a set.
Written(p, k) == DOMAIN workers[p][k].written

\* C26: the chunks partition the file map.  No chunk worker writes more
\* than 6 entries, none writes a path twice, no two workers of a package
\* write the same path, and once all workers have completed every entry of
\* the file map was written by exactly one of them.
C26_ChunksPartitionTheFileMap ==
  \A p \in Ids :
    LET ws == 1..Len(workers[p])
        root == package_path(Package[p])
    IN /\ \A k \in ws :
            /\ Cardinality(Written(p, k)) <= CHUNK_SIZE
            /\ \A q \in Written(p, k) : workers[p][k].written[q] = 1
       /\ \A k, l \in ws : k # l => Written(p, k) \cap Written(p, l) = {}
       /\ (ws # {} /\ \A k \in ws : workers[p][k].status = "ok") =>
            \A i \in 1..Package[p].files :
              Cardinality({ k \in ws : (root \o FilePath(i)) \in Written(p, k) }) = 1

\* Every chunk task of a package of more than one chunk has completed, and
\* the first entry of the file map was not in the first chunk.
C26_Witness ==
  \E p \in Ids :
    /\ Len(workers[p]) > 1
    /\ \A k \in 1..Len(workers[p]) : workers[p][k].status = "ok"
    /\ 1 \notin workers[p][1].chunk

\* Every request ran as a spawned task and every task has finished.
AllTasksFinished ==
  /\ mainPc = "returned_ok"
  /\ Len(packages) > 1
  /\ \A i \in Requests : Spawned(i) /\ taskPc[i] = "done"

\* C27: after the concurrently spawned tasks have all finished, the lock
\* file on disk has the entries of the dependency tree of every requested
\* package: no task's entries are lost to the save of another task.
C27_LockFileKeepsEveryTree ==
  AllTasksFinished =>
    \A i \in Requests : current_version_packages(packages[i]) \subseteq lockDisk

\* The body of request i holds the guard of the package_file mutex.
HoldsGuard(i) == Spawned(i) /\ taskPc[i] = "save_lock"

\* C28: the updates of package.json are mutually exclusive, each
\* insert-and-save runs under the shared mutex, and after the spawned tasks
\* have all finished package.json on disk has the entry of every task.
C28_PackageJsonKeepsEveryEntry ==
  /\ \A i, j \in Requests : (HoldsGuard(i) /\ HoldsGuard(j)) => i = j
  /\ \A i \in Requests : HoldsGuard(i) => mutexOwner = i
  /\ \A i \in Requests :
       (Spawned(i) /\ taskPc[i] = "done") => packages[i] \in packageJsonDisk
  /\ AllTasksFinished => \A i \in Requests : packages[i] \in packageJsonDisk

\* Two spawned tasks for different packages have both finished.
C28_Witness ==
  /\ AllTasksFinished
  /\ \E i, j \in Requests : packages[i] # packages[j]

====
